---- MODULE Spec2Model ----
(***************************************************************************)
(* The Home Assistant state-listing component (ListHomeAssistantStates)    *)
(* and the callbacks component (CallbacksComponent) as a state machine.    *)
(*                                                                         *)
(* Python values are tagged records [t, v]; every text (a str, a URL, a    *)
(* header, an HTTP body, a rendered JSON document) is a sequence of        *)
(* one-character strings, so that startswith, json.dumps and json.loads    *)
(* are computed character by character, as the code computes them.         *)
(***************************************************************************)
EXTENDS Integers, Sequences, FiniteSets, TLC

VARIABLES
  self,        \* the configured component: ha_token, base_url, filter_domain
  pc,          \* "idle", or "done" when an invocation has returned
  op,          \* the invocation that returned
  arg,         \* the arguments the agent gave the tool
  request,     \* the request given to invoke
  upstream,    \* how the upstream answered the GET
  sent,        \* the HTTP requests the invocation sent
  listed,      \* what _list_states returned
  ret,         \* what the tool function returned, or the exception that escaped
  envelope,    \* the Data run_model returned
  handlers,    \* the handlers the tracing service gave
  callbacks,   \* what build_callbacks returned
  toolFilter   \* history: the filter_domain of the latest tool call

vars == <<self, pc, op, arg, request, upstream, sent, listed, ret, envelope,
          handlers, callbacks, toolFilter>>

\* ------------------------------------------------------------------------
\* Python values
\* ------------------------------------------------------------------------
PyStr(s) == [t |-> "str", v |-> s]

PyNum(n) == [t |-> "num", v |-> <<n>>]

PyNone == [t |-> "none", v |-> <<>>]

PyList(items) == [t |-> "list", v |-> items]

\* a dict is its items in insertion order, each <<key, value>>
PyDict(pairs) == [t |-> "dict", v |-> pairs]

\* an exception that propagates out of a call, with str(e)
PyRaise(msg) == [t |-> "raise", v |-> msg]

\* type(x).__name__
TypeName(x) ==
  CASE x.t = "str" -> <<"s","t","r">>
    [] x.t = "num" -> <<"i","n","t">>
    [] x.t = "none" -> <<"N","o","n","e","T","y","p","e">>
    [] x.t = "list" -> <<"l","i","s","t">>
    [] x.t = "dict" -> <<"d","i","c","t">>

\* bool(x), as `if x:` and `x or y` compute it
Truthy(x) ==
  CASE x.t = "none" -> FALSE
    [] x.t = "num" -> x.v[1] # 0
    [] OTHER -> Len(x.v) > 0

RECURSIVE IntStr(_)
\* str(n) of a non-negative int
IntStr(n) ==
  LET digit == <<"0", "1", "2", "3", "4", "5", "6", "7", "8", "9">>[(n % 10) + 1]
  IN IF n < 10 THEN <<digit>> ELSE Append(IntStr(n \div 10), digit)

\* f"{x}" of a str or of None
Format(x) ==
  CASE x.t = "str" -> x.v
    [] x.t = "num" -> IntStr(x.v[1])
    [] OTHER -> <<"N","o","n","e">>

\* s.startswith(prefix)
startswith(s, prefix) ==
  /\ Len(s) >= Len(prefix)
  /\ SubSeq(s, 1, Len(prefix)) = prefix

RECURSIVE DictGet(_, _, _)
\* d.get(key, default) on the items of a dict
DictGet(pairs, key, default) ==
  IF pairs = <<>> THEN default
  ELSE IF Head(pairs)[1] = key THEN Head(pairs)[2]
  ELSE DictGet(Tail(pairs), key, default)

\* d[key] = value on the items of a dict (a repeated key keeps its place)
DictSet(pairs, key, value) ==
  IF \E i \in 1..Len(pairs) : pairs[i][1] = key
  THEN [i \in 1..Len(pairs) |->
          IF pairs[i][1] = key THEN <<key, value>> ELSE pairs[i]]
  ELSE Append(pairs, <<key, value>>)

\* ------------------------------------------------------------------------
\* json.dumps(obj, indent=2, ensure_ascii=False)
\* ------------------------------------------------------------------------
RECURSIVE Indent(_)
Indent(level) == IF level = 0 THEN <<>> ELSE <<" "," ">> \o Indent(level - 1)

newline_indent(level) == <<"\n">> \o Indent(level)

EscapeChar(c) ==
  CASE c = "\"" -> <<"\\","\"">>
    [] c = "\\" -> <<"\\","\\">>
    [] c = "\n" -> <<"\\","n">>
    [] OTHER -> <<c>>

RECURSIVE EscapeAll(_)
EscapeAll(s) == IF s = <<>> THEN <<>> ELSE EscapeChar(Head(s)) \o EscapeAll(Tail(s))

\* json.encoder.py_encode_basestring
encode_basestring(s) == <<"\"">> \o EscapeAll(s) \o <<"\"">>

RECURSIVE iterencode(_, _), iterencode_list(_, _), iterencode_dict(_, _)
\* the items of a non-empty list, joined by "," and the indentation
iterencode_list(items, level) ==
  IF Len(items) = 1 THEN iterencode(items[1], level)
  ELSE iterencode(Head(items), level) \o <<",">> \o newline_indent(level)
         \o iterencode_list(Tail(items), level)

iterencode_dict(pairs, level) ==
  LET first == encode_basestring(Head(pairs)[1]) \o <<":"," ">>
                 \o iterencode(Head(pairs)[2], level)
  IN IF Len(pairs) = 1 THEN first
     ELSE first \o <<",">> \o newline_indent(level) \o iterencode_dict(Tail(pairs), level)

iterencode(o, level) ==
  CASE o.t = "str" -> encode_basestring(o.v)
    [] o.t = "none" -> <<"n","u","l","l">>
    [] o.t = "num" -> IntStr(o.v[1])
    [] o.t = "list" ->
         IF Len(o.v) = 0 THEN <<"[","]">>
         ELSE <<"[">> \o newline_indent(level + 1) \o iterencode_list(o.v, level + 1)
                \o newline_indent(level) \o <<"]">>
    [] o.t = "dict" ->
         IF Len(o.v) = 0 THEN <<"{","}">>
         ELSE <<"{">> \o newline_indent(level + 1) \o iterencode_dict(o.v, level + 1)
                \o newline_indent(level) \o <<"}">>

json_dumps(obj) == iterencode(obj, 0)

\* ------------------------------------------------------------------------
\* json.loads(text): [ok, val, end]; ok = FALSE is a JSONDecodeError
\* ------------------------------------------------------------------------
DecodeError == [ok |-> FALSE, val |-> PyNone, end |-> 0]

Decoded(val, end) == [ok |-> TRUE, val |-> val, end |-> end]

RECURSIVE SkipWs(_, _)
\* json.decoder.WHITESPACE.match(s, i).end()
SkipWs(s, i) ==
  IF i <= Len(s) /\ s[i] \in {" ", "\n", "\t", "\r"} THEN SkipWs(s, i + 1) ELSE i

Digits == {"0", "1", "2", "3", "4", "5", "6", "7", "8", "9"}

DigitValue(c) == CHOOSE n \in 0..9 : IntStr(n) = <<c>>

RECURSIVE scannumber(_, _, _)
\* the digits from s[i] on, read as an int (a leading 0 stands alone)
scannumber(s, i, n) ==
  IF i <= Len(s) /\ s[i] \in Digits /\ ~(n = 0 /\ i > 1 /\ s[i - 1] = "0")
  THEN scannumber(s, i + 1, 10 * n + DigitValue(s[i]))
  ELSE Decoded(PyNum(n), i)

RECURSIVE scanstring(_, _, _)
\* json.decoder.py_scanstring, from the character after the opening quote
scanstring(s, i, chars) ==
  IF i > Len(s) THEN DecodeError
  ELSE IF s[i] = "\"" THEN Decoded(PyStr(chars), i + 1)
  ELSE IF s[i] = "\\" THEN
    IF i + 1 > Len(s) THEN DecodeError
    ELSE IF s[i + 1] \in {"\"", "\\", "/"} THEN scanstring(s, i + 2, Append(chars, s[i + 1]))
    ELSE IF s[i + 1] = "n" THEN scanstring(s, i + 2, Append(chars, "\n"))
    ELSE DecodeError
  ELSE IF s[i] \in {"\n", "\t", "\r"} THEN DecodeError
  ELSE scanstring(s, i + 1, Append(chars, s[i]))

RECURSIVE scan_once(_, _), JSONArray(_, _, _), JSONObject(_, _, _)
\* json.scanner.py_make_scanner._scan_once
scan_once(s, i) ==
  IF i > Len(s) THEN DecodeError
  ELSE IF s[i] = "\"" THEN scanstring(s, i + 1, <<>>)
  ELSE IF s[i] = "{" THEN
    LET j == SkipWs(s, i + 1)
    IN IF j <= Len(s) /\ s[j] = "}" THEN Decoded(PyDict(<<>>), j + 1)
       ELSE JSONObject(s, j, <<>>)
  ELSE IF s[i] = "[" THEN
    LET j == SkipWs(s, i + 1)
    IN IF j <= Len(s) /\ s[j] = "]" THEN Decoded(PyList(<<>>), j + 1)
       ELSE JSONArray(s, j, <<>>)
  ELSE IF s[i] = "n" THEN
    IF i + 3 <= Len(s) /\ SubSeq(s, i, i + 3) = <<"n","u","l","l">>
    THEN Decoded(PyNone, i + 4) ELSE DecodeError
  ELSE IF s[i] \in Digits THEN scannumber(s, i, 0)
  ELSE DecodeError

\* json.decoder.JSONArray: the values from s[i] on, up to the closing bracket
JSONArray(s, i, values) ==
  LET r == scan_once(s, i)
      j == SkipWs(s, r.end)
  IN IF ~r.ok \/ j > Len(s) THEN DecodeError
     ELSE IF s[j] = "]" THEN Decoded(PyList(Append(values, r.val)), j + 1)
     ELSE IF s[j] = "," THEN JSONArray(s, SkipWs(s, j + 1), Append(values, r.val))
     ELSE DecodeError

\* json.decoder.JSONObject: the "key": value pairs from s[i] on
JSONObject(s, i, pairs) ==
  IF i > Len(s) \/ s[i] # "\"" THEN DecodeError
  ELSE
    LET k == scanstring(s, i + 1, <<>>)
        c == SkipWs(s, k.end)
    IN IF ~k.ok \/ c > Len(s) \/ s[c] # ":" THEN DecodeError
       ELSE
         LET r == scan_once(s, SkipWs(s, c + 1))
             j == SkipWs(s, r.end)
         IN IF ~r.ok \/ j > Len(s) THEN DecodeError
            ELSE IF s[j] = "}" THEN Decoded(PyDict(DictSet(pairs, k.val.v, r.val)), j + 1)
            ELSE IF s[j] = ","
              THEN JSONObject(s, SkipWs(s, j + 1), DictSet(pairs, k.val.v, r.val))
            ELSE DecodeError

\* JSONDecoder.decode, after raw_decode: "Extra data" unless only whitespace follows
decode_end(s, r) == IF r.ok /\ SkipWs(s, r.end) = Len(s) + 1 THEN r ELSE DecodeError

\* json.loads: one value, with nothing but whitespace around it
json_loads(s) == decode_end(s, scan_once(s, SkipWs(s, 1)))

\* ------------------------------------------------------------------------
\* The upstream (the Home Assistant server and the network in front of it)
\* ------------------------------------------------------------------------
MaxItems == 2

MaxHandlers == 2

\* the states an upstream list is made of
E_light == PyDict(<< <<<<"e","n","t","i","t","y","_","i","d">>, PyStr(<<"l","i","g","h","t",".","k","i","t","c","h","e","n">>)>>, <<<<"s","t","a","t","e">>, PyStr(<<"o","n">>)>> >>)

E_sensor == PyDict(<< <<<<"e","n","t","i","t","y","_","i","d">>, PyStr(<<"s","e","n","s","o","r",".","t","e","m","p">>)>>, <<<<"s","t","a","t","e">>, PyStr(<<"2","1">>)>> >>)

E_lighting == PyDict(<< <<<<"e","n","t","i","t","y","_","i","d">>, PyStr(<<"l","i","g","h","t","i","n","g",".","x">>)>> >>)

E_nokey == PyDict(<< <<<<"s","t","a","t","e">>, PyStr(<<"o","\"","n","\\">>)>> >>)

E_null == PyDict(<< <<<<"e","n","t","i","t","y","_","i","d">>, PyNone>>, <<<<"s","t","a","t","e">>, PyNum(21)>> >>)

Entities == {E_light, E_sensor, E_lighting, E_nokey, E_null}

RECURSIVE SeqsUpTo(_, _)
\* the sequences over S of length at most n
SeqsUpTo(S, n) ==
  IF n = 0 THEN {<<>>}
  ELSE LET shorter == SeqsUpTo(S, n - 1)
       IN shorter \cup {Append(q, x) : q \in shorter, x \in S}

\* what the upstream may hold: lists of states, and the shapes that are not
JsonValues ==
  {PyList(q) : q \in SeqsUpTo(Entities, MaxItems)}
    \cup {PyDict(<<>>), PyDict(<< <<<<"m","e","s","s","a","g","e">>, PyStr(<<"x">>)>> >>),
          PyStr(<<>>), PyStr(<<"o","k">>), PyNum(7), PyNone,
          PyList(<<PyStr(<<"l","i","g","h","t",".","a">>)>>)}

RECURSIVE Compact(_), CompactList(_), CompactDict(_)
CompactList(items) ==
  IF Len(items) = 1 THEN Compact(items[1])
  ELSE Compact(Head(items)) \o <<",">> \o CompactList(Tail(items))

CompactDict(pairs) ==
  LET first == encode_basestring(Head(pairs)[1]) \o <<":">> \o Compact(Head(pairs)[2])
  IN IF Len(pairs) = 1 THEN first ELSE first \o <<",">> \o CompactDict(Tail(pairs))

\* the body the upstream sends for a value: JSON without whitespace
Compact(o) ==
  CASE o.t = "str" -> encode_basestring(o.v)
    [] o.t = "none" -> <<"n","u","l","l">>
    [] o.t = "num" -> IntStr(o.v[1])
    [] o.t = "list" -> IF Len(o.v) = 0 THEN <<"[","]">> ELSE <<"[">> \o CompactList(o.v) \o <<"]">>
    [] o.t = "dict" -> IF Len(o.v) = 0 THEN <<"{","}">> ELSE <<"{">> \o CompactDict(o.v) \o <<"}">>

\* an HTTP response: the upstream's value (states) as its body (text)
Response(status_code, reason, states, text) ==
  [kind |-> "response", status_code |-> status_code, reason |-> reason,
   states |-> states, text |-> text]

\* a requests.get that raises instead of returning: text is str(e)
Failure(kind, message) ==
  [kind |-> kind, status_code |-> 0, reason |-> <<>>, states |-> PyNone, text |-> message]

NoUpstream == Failure("none", <<>>)

NotJson == <<"<","h","t","m","l",">">>

ErrorStatuses ==
  {<<300, <<"M","u","l","t","i","p","l","e"," ","C","h","o","i","c","e","s">>>>, <<404, <<"N","o","t"," ","F","o","u","n","d">>>>, <<500, <<"I","n","t","e","r","n","a","l"," ","S","e","r","v","e","r"," ","E","r","r","o","r">>>>}

Upstreams ==
  {Response(200, <<"O","K">>, j, Compact(j)) : j \in JsonValues}
    \cup {Response(200, <<"O","K">>, PyNone, NotJson), Response(200, <<"O","K">>, PyNone, <<>>)}
    \cup {Response(s[1], s[2], PyList(<<E_light, E_sensor>>), Compact(PyList(<<E_light, E_sensor>>))) :
            s \in ErrorStatuses}
    \cup {Response(s[1], s[2], PyNone, NotJson) : s \in ErrorStatuses}
    \cup {Failure("ConnectionError", <<"C","o","n","n","e","c","t","i","o","n"," ","r","e","f","u","s","e","d">>),
          Failure("Timeout", <<"R","e","a","d"," ","t","i","m","e","d"," ","o","u","t","."," ","(","r","e","a","d"," ","t","i","m","e","o","u","t","=","1","0",")">>)}

\* ------------------------------------------------------------------------
\* ListHomeAssistantStates
\* ------------------------------------------------------------------------
TIMEOUT == 10

\* Data(data=..., text=...): the result envelope
Data(data, text) == [data |-> data, text |-> text]

NoData == Data(PyNone, <<>>)

\* a faulty GET: sent a second time when the first raises
requests_get_retried(url, headers, timeout, up) ==
  [sent |-> IF up.kind # "response"
            THEN <<[method |-> "GET", url |-> url, headers |-> headers, timeout |-> timeout],
                   [method |-> "GET", url |-> url, headers |-> headers, timeout |-> timeout]>>
            ELSE <<[method |-> "GET", url |-> url, headers |-> headers, timeout |-> timeout]>>,
   raised |-> up.kind # "response",
   message |-> up.text,
   response |-> up]

\* requests.get(url, headers=headers, timeout=10): the requests sent, and the
\* response or the exception the upstream's behaviour gives
requests_get(url, headers, timeout, up) ==
  [sent |-> <<[method |-> "GET", url |-> url, headers |-> headers, timeout |-> timeout]>>,
   raised |-> up.kind # "response",
   message |-> up.text,
   response |-> up]

\* response.raise_for_status(): the HTTPError's message, <<>> when none is raised
raise_for_status(response, url) ==
  IF 400 <= response.status_code /\ response.status_code < 500
  THEN IntStr(response.status_code) \o <<" ","C","l","i","e","n","t"," ","E","r","r","o","r",":"," ">> \o response.reason
         \o <<" ","f","o","r"," ","u","r","l",":"," ">> \o url
  ELSE IF 500 <= response.status_code /\ response.status_code < 600
  THEN IntStr(response.status_code) \o <<" ","S","e","r","v","e","r"," ","E","r","r","o","r",":"," ">> \o response.reason
         \o <<" ","f","o","r"," ","u","r","l",":"," ">> \o url
  ELSE <<>>

\* response.json(): a body that is no JSON raises requests' JSONDecodeError,
\* a RequestException (requests 2.27 and later)
response_json(response) == json_loads(response.text)

JSONDecodeErrorMessage == <<"E","x","p","e","c","t","i","n","g"," ","v","a","l","u","e",":"," ","l","i","n","e"," ","1"," ","c","o","l","u","m","n"," ","1"," ","(","c","h","a","r"," ","0",")">>

\* the outcome of a block of code: a value, or an exception of a class
Returned(value) == [exc |-> "none", message |-> <<>>, value |-> value]

Raised(exc, message) == [exc |-> exc, message |-> message, value |-> PyNone]

AttributeError(x, name) ==
  Raised("Exception", <<"'">> \o TypeName(x) \o <<"'"," ","o","b","j","e","c","t"," ","h","a","s"," ","n","o"," ","a","t","t","r","i","b","u","t","e"," ","'">> \o name \o <<"'">>)

\* iter(x): the elements a comprehension visits
Iterate(x) ==
  CASE x.t = "list" -> Returned(x.v)
    [] x.t = "dict" -> Returned([i \in 1..Len(x.v) |-> PyStr(x.v[i][1])])
    [] x.t = "str" -> Returned([i \in 1..Len(x.v) |-> PyStr(<<x.v[i]>>)])
    [] OTHER -> Raised("Exception", <<"'">> \o TypeName(x) \o <<"'"," ","o","b","j","e","c","t"," ","i","s"," ","n","o","t"," ","i","t","e","r","a","b","l","e">>)

\* a faulty entity_matches: the prefix is the domain without the "."
entity_matches_without_dot(st, filter_domain) ==
  IF st.t # "dict" THEN AttributeError(st, <<"g","e","t">>)
  ELSE LET entity_id == DictGet(st.v, <<"e","n","t","i","t","y","_","i","d">>, PyStr(<<>>))
       IN IF entity_id.t # "str" THEN AttributeError(entity_id, <<"s","t","a","r","t","s","w","i","t","h">>)
          ELSE Returned(startswith(entity_id.v, Format(filter_domain)))

\* st.get("entity_id", "").startswith(f"{filter_domain}.")
entity_matches(st, filter_domain) ==
  IF st.t # "dict" THEN AttributeError(st, <<"g","e","t">>)
  ELSE LET entity_id == DictGet(st.v, <<"e","n","t","i","t","y","_","i","d">>, PyStr(<<>>))
       IN IF entity_id.t # "str" THEN AttributeError(entity_id, <<"s","t","a","r","t","s","w","i","t","h">>)
          ELSE Returned(startswith(entity_id.v, Format(filter_domain) \o <<".">>))

RECURSIVE comprehension(_, _, _)
\* [st for st in all_states if ...], left at the first exception
comprehension(items, filter_domain, filtered) ==
  IF items = <<>> THEN Returned(PyList(filtered))
  ELSE LET m == entity_matches(Head(items), filter_domain)
       IN IF m.exc # "none" THEN m
          ELSE comprehension(Tail(items), filter_domain,
                             IF m.value THEN Append(filtered, Head(items)) ELSE filtered)

\* a faulty handler: the RequestException is raised again
on_request_exception_reraised(e) == PyRaise(e)

\* except requests.exceptions.RequestException as e
on_request_exception(e) == PyStr(<<"E","r","r","o","r",":"," ","F","a","i","l","e","d"," ","t","o"," ","f","e","t","c","h"," ","s","t","a","t","e","s","."," ">> \o e)

\* except Exception as e
on_exception(e) == PyStr(<<"A","n"," ","u","n","e","x","p","e","c","t","e","d"," ","e","r","r","o","r"," ","o","c","c","u","r","r","e","d",":"," ">> \o e)

\* the comprehension over what iter(all_states) gave
filter_iterated(it, filter_domain) ==
  IF it.exc # "none" THEN it ELSE comprehension(it.value, filter_domain, <<>>)

\* from `all_states = response.json()` to the return of the try block
filter_states(all_states, filter_domain) ==
  IF ~all_states.ok THEN Raised("RequestException", JSONDecodeErrorMessage)
  ELSE IF Truthy(filter_domain)
    THEN filter_iterated(Iterate(all_states.val), filter_domain)
  ELSE Returned(all_states.val)

\* the try block of _list_states, after the GET
list_states_try(got, url, filter_domain) ==
  IF got.raised THEN Raised("RequestException", got.message)
  ELSE IF raise_for_status(got.response, url) # <<>>
    THEN Raised("RequestException", raise_for_status(got.response, url))
  ELSE filter_states(response_json(got.response), filter_domain)

\* the except clauses of _list_states: what is returned for an outcome of the try block
list_states_except(r) ==
  CASE r.exc = "none" -> r.value
    [] r.exc = "RequestException" -> on_request_exception(r.message)
    [] OTHER -> on_exception(r.message)

\* _list_states: the value returned, and the requests sent to get it
_list_states(ha_token, base_url, filter_domain, up) ==
  LET headers == [Authorization |-> <<"B","e","a","r","e","r"," ">> \o Format(ha_token),
                  ContentType |-> <<"a","p","p","l","i","c","a","t","i","o","n","/","j","s","o","n">>]
      url == Format(base_url) \o <<"/","a","p","i","/","s","t","a","t","e","s">>
      got == requests_get(url, headers, TIMEOUT, up)
  IN [sent |-> got.sent,
      value |-> list_states_except(list_states_try(got, url, filter_domain))]

\* a faulty _make_data_response: the text of a list is rendered from the bare list
_make_data_response_bare_list_text(result) ==
  CASE result.t = "list" -> Data(PyDict(<< <<<<"r","e","s","u","l","t">>, result>> >>), json_dumps(result))
    [] result.t = "dict" -> Data(result, json_dumps(result))
    [] result.t = "str" -> Data(PyDict(<<>>), result.v)
    [] OTHER -> Data(PyDict(<<>>), <<"E","r","r","o","r",":"," ","U","n","e","x","p","e","c","t","e","d"," ","r","e","s","p","o","n","s","e"," ","f","o","r","m","a","t",".">>)

\* _make_data_response. Its `except Exception` is not modelled: json.dumps
\* raises for none of the values response.json() yields.
_make_data_response(result) ==
  CASE result.t = "list" ->
         LET wrapped_result == PyDict(<< <<<<"r","e","s","u","l","t">>, result>> >>)
         IN Data(wrapped_result, json_dumps(wrapped_result))
    [] result.t = "dict" -> Data(result, json_dumps(result))
    [] result.t = "str" -> Data(PyDict(<<>>), result.v)
    [] OTHER -> Data(PyDict(<<>>), <<"E","r","r","o","r",":"," ","U","n","e","x","p","e","c","t","e","d"," ","r","e","s","p","o","n","s","e"," ","f","o","r","m","a","t",".">>)

\* `self.filter_domain or ""`
filter_domain_or_empty(filter_domain) ==
  IF Truthy(filter_domain) THEN filter_domain ELSE PyStr(<<>>)

\* run_model: the requests sent, what _list_states returned, and the envelope
\* returned (or the exception that left _list_states)
run_model_return(result) ==
  [sent |-> result.sent,
   listed |-> result.value,
   ret |-> IF result.value.t = "raise" THEN result.value ELSE PyNone,
   envelope |-> IF result.value.t = "raise" THEN NoData
                ELSE _make_data_response(result.value)]

run_model(adapter, up) ==
  run_model_return(_list_states(adapter.ha_token, adapter.base_url,
                                filter_domain_or_empty(adapter.filter_domain), up))

\* an argument the caller leaves out
Absent == [t |-> "absent", v |-> <<>>]

\* ToolSchema: the one field the tool takes, "" when left out; any other
\* key of the agent's arguments is dropped
ToolSchema(args) ==
  [filter_domain |-> IF args.filter_domain = Absent THEN PyStr(<<>>) ELSE args.filter_domain]

\* a faulty _list_states_for_tool: the configured filter, not the argument
_list_states_for_tool_configured_filter(adapter, filter_domain, up) ==
  _list_states(adapter.ha_token, adapter.base_url, adapter.filter_domain, up)

\* a faulty _list_states_for_tool: `filter_domain or self.filter_domain`
_list_states_for_tool_default_filter(adapter, filter_domain, up) ==
  _list_states(adapter.ha_token, adapter.base_url,
               IF Truthy(filter_domain) THEN filter_domain ELSE adapter.filter_domain, up)

\* _list_states_for_tool
_list_states_for_tool(adapter, filter_domain, up) ==
  _list_states(adapter.ha_token, adapter.base_url, filter_domain, up)

\* the tool build_tool makes: ToolSchema's field, given to _list_states_for_tool
build_tool(adapter, args, up) ==
  _list_states_for_tool(adapter, ToolSchema(args).filter_domain, up)

\* ------------------------------------------------------------------------
\* Validation of a request against the declared inputs
\* ------------------------------------------------------------------------
\* faulty inputs: base_url declared required=False
RequiredInputs_token_only == <<"ha_token">>

\* inputs: the names declared required=True
RequiredInputs == <<"ha_token", "base_url">>

\* the required inputs the request leaves out, in declaration order
MissingFields(req) == SelectSeq(RequiredInputs, LAMBDA n : req[n] = Absent)

FieldName(n) == IF n = "ha_token" THEN <<"h","a","_","t","o","k","e","n">> ELSE <<"b","a","s","e","_","u","r","l">>

\* invoke(request): MissingField as an envelope, else run_model on the
\* adapter made of the declared fields of the request
invoke(req, up) ==
  IF MissingFields(req) # <<>>
  THEN [sent |-> <<>>, listed |-> PyNone, ret |-> PyNone,
        envelope |-> Data(PyDict(<<>>), <<"M","i","s","s","i","n","g","F","i","e","l","d",":"," ">> \o FieldName(MissingFields(req)[1]))]
  ELSE run_model([ha_token |-> req.ha_token, base_url |-> req.base_url,
                  filter_domain |-> IF req.filter_domain = Absent THEN PyNone
                                    ELSE req.filter_domain], up)

\* ------------------------------------------------------------------------
\* CallbacksComponent
\* ------------------------------------------------------------------------
\* a faulty build_callbacks: the first handler is left out
build_callbacks_without_first(get_langchain_callbacks) ==
  IF get_langchain_callbacks = <<>> THEN <<>> ELSE Tail(get_langchain_callbacks)

\* build_callbacks: `return self.get_langchain_callbacks()`, given what that
\* call returns
build_callbacks(get_langchain_callbacks) == get_langchain_callbacks

\* ------------------------------------------------------------------------
\* The state machine
\* ------------------------------------------------------------------------
Tokens == {PyStr(<<"t","o","k","A">>), PyStr(<<"t","o","k","B">>)}

BaseUrls == {PyStr(<<"h","t","t","p",":","/","/","h","a",":","8","1","2","3">>), PyStr(<<"h","t","t","p",":","/","/","h","2">>)}

DefaultFilters == {PyNone, PyStr(<<>>), PyStr(<<"s","e","n","s","o","r">>)}

\* what an agent may pass: filter_domain, and keys the schema does not have
AgentArgs ==
  {[filter_domain |-> d, ha_token |-> x[1], base_url |-> x[2]] :
     d \in {Absent, PyStr(<<>>), PyStr(<<"l","i","g","h","t">>)},
     x \in {<<Absent, Absent>>, <<PyStr(<<"e","v","i","l">>), PyStr(<<"h","t","t","p",":","/","/","e","v","i","l">>)>>}}

Requests ==
  [ha_token : {Absent, PyStr(<<"t","o","k","A">>)},
   base_url : {Absent, PyStr(<<"h","t","t","p",":","/","/","h","2">>)},
   filter_domain : {Absent, PyStr(<<"l","i","g","h","t">>)},
   extra : {Absent, PyStr(<<"x">>)}]

NoArgs == [filter_domain |-> Absent, ha_token |-> Absent, base_url |-> Absent]

NoRequest == [ha_token |-> Absent, base_url |-> Absent, filter_domain |-> Absent, extra |-> Absent]

Handlers == {"h1", "h2"}

Init ==
  /\ self \in [ha_token : Tokens, base_url : BaseUrls, filter_domain : DefaultFilters]
  /\ pc = "idle"
  /\ op = "none"
  /\ arg = NoArgs
  /\ request = NoRequest
  /\ upstream = NoUpstream
  /\ sent = <<>>
  /\ listed = PyNone
  /\ ret = PyNone
  /\ envelope = NoData
  /\ handlers = <<>>
  /\ callbacks = <<>>
  /\ toolFilter = PyNone

\* the operator runs the component
RunModel ==
  /\ pc = "idle"
  /\ \E up \in Upstreams :
       \E r \in {run_model(self, up)} :
          /\ upstream' = up
          /\ sent' = r.sent
          /\ listed' = r.listed
          /\ ret' = r.ret
          /\ envelope' = r.envelope
  /\ pc' = "done"
  /\ op' = "run_model"
  /\ UNCHANGED <<self, arg, request, handlers, callbacks, toolFilter>>

\* an agent calls the tool
ToolCall ==
  /\ pc = "idle"
  /\ \E args \in AgentArgs, up \in Upstreams :
       \E r \in {build_tool(self, args, up)} :
          /\ arg' = args
          /\ upstream' = up
          /\ sent' = r.sent
          /\ listed' = r.value
          /\ ret' = r.value
          /\ toolFilter' = ToolSchema(args).filter_domain
  /\ pc' = "done"
  /\ op' = "tool"
  /\ UNCHANGED <<self, request, envelope, handlers, callbacks>>

\* a caller invokes an adapter made from a request
Invoke ==
  /\ pc = "idle"
  /\ \E req \in Requests, up \in Upstreams :
       \E r \in {invoke(req, up)} :
          /\ request' = req
          /\ upstream' = IF MissingFields(req) # <<>> THEN NoUpstream ELSE up
          /\ sent' = r.sent
          /\ listed' = r.listed
          /\ ret' = r.ret
          /\ envelope' = r.envelope
  /\ pc' = "done"
  /\ op' = "invoke"
  /\ UNCHANGED <<self, arg, handlers, callbacks, toolFilter>>

\* the callbacks output is built
BuildCallbacks ==
  /\ pc = "idle"
  /\ \E H \in SeqsUpTo(Handlers, MaxHandlers) :
       /\ handlers' = H
       /\ callbacks' = build_callbacks(H)
  /\ pc' = "done"
  /\ op' = "build_callbacks"
  /\ UNCHANGED <<self, arg, request, upstream, sent, listed, ret, envelope, toolFilter>>

\* the caller takes the result; nothing of the invocation is kept
Return ==
  /\ pc = "done"
  /\ pc' = "idle"
  /\ op' = "none"
  /\ arg' = NoArgs
  /\ request' = NoRequest
  /\ upstream' = NoUpstream
  /\ sent' = <<>>
  /\ listed' = PyNone
  /\ ret' = PyNone
  /\ envelope' = NoData
  /\ handlers' = <<>>
  /\ callbacks' = <<>>
  /\ UNCHANGED <<self, toolFilter>>

Next == RunModel \/ ToolCall \/ Invoke \/ BuildCallbacks \/ Return

Spec == Init /\ [][Next]_vars

\* ------------------------------------------------------------------------
\* Vocabulary of the properties
\* ------------------------------------------------------------------------
Done(o) == pc = "done" /\ op = o

\* run_model has run: directly, or by invoke on a complete request
RanModel == Done("run_model") \/ (Done("invoke") /\ MissingFields(request) = <<>>)

\* the filter the invocation asked for, as text ("" for none)
FilterText(x) == IF x.t = "str" THEN x.v ELSE <<>>

UsedFilter ==
  CASE op = "tool" -> FilterText(arg.filter_domain)
    [] op = "invoke" -> FilterText(request.filter_domain)
    [] OTHER -> FilterText(self.filter_domain)

\* sub occurs in s
Contains(s, sub) ==
  \E i \in 0..(Len(s) - Len(sub)) : SubSeq(s, i + 1, i + Len(sub)) = sub

BeginsWithError(text) == Len(text) >= 6 /\ SubSeq(text, 1, 6) = <<"E","r","r","o","r",":">>

EmptyMapping == PyDict(<<>>)

\* the upstream answered 2xx with a JSON list of mappings as its body
SuccessfulList ==
  /\ upstream.kind = "response"
  /\ upstream.status_code \in 200..299
  /\ upstream.text = Compact(upstream.states)
  /\ upstream.states.t = "list"
  /\ \A i \in 1..Len(upstream.states.v) : upstream.states.v[i].t = "dict"

\* the entity_id of a mapping, where it has one, is a string
StringId(st) ==
  \A k \in 1..Len(st.v) : st.v[k][1] = <<"e","n","t","i","t","y","_","i","d">> => st.v[k][2].t = "str"

\* the mapping has an entity_id that is d, a ".", and more
InDomain(st, d) ==
  \E k \in 1..Len(st.v) :
    /\ st.v[k][1] = <<"e","n","t","i","t","y","_","i","d">>
    /\ st.v[k][2].t = "str"
    /\ Len(st.v[k][2].v) > Len(d)
    /\ \A n \in 1..Len(d) : st.v[k][2].v[n] = d[n]
    /\ st.v[k][2].v[Len(d) + 1] = "."

\* the reference filter: S itself for no filter, else the items in the domain
ReferenceFilter(S, d) ==
  IF d = <<>> THEN S ELSE SelectSeq(S, LAMBDA st : InDomain(st, d))

ListedIsReference ==
  /\ listed = PyList(ReferenceFilter(upstream.states.v, UsedFilter))
  /\ Done("run_model") =>
       envelope.data = PyDict(<< <<<<"r","e","s","u","l","t">>, PyList(ReferenceFilter(upstream.states.v, UsedFilter))>> >>)

\* ------------------------------------------------------------------------
\* C1
\* ------------------------------------------------------------------------
\* C1 (as amended): for a 2xx response whose body is a list S of mappings,
\* _list_states returns S itself when the filter is empty or absent; when the
\* filter d is non-empty and every entity_id present in S is a string, it
\* returns exactly the items of S, in order, whose entity_id starts with d
\* and a "."; run_model puts that list under "result" of the payload.
C1_FilterIsReference ==
  ((Done("run_model") \/ Done("tool")) /\ SuccessfulList
     /\ (UsedFilter = <<>> \/ \A i \in 1..Len(upstream.states.v) : StringId(upstream.states.v[i])))
    => ListedIsReference

\* a filtered listing that drops "lighting.x" and keeps "light.kitchen"
C1_Witness ==
  /\ Done("tool")
  /\ SuccessfulList
  /\ UsedFilter = <<"l","i","g","h","t">>
  /\ upstream.states = PyList(<<E_lighting, E_light>>)
  /\ ret = PyList(<<E_light>>)

\* C1 as stated: the same for every list of mappings, whatever its entity_id
\* values are.
C1_Original ==
  ((Done("run_model") \/ Done("tool")) /\ SuccessfulList) => ListedIsReference

\* ------------------------------------------------------------------------
\* C2
\* ------------------------------------------------------------------------
ErrorEnvelope ==
  /\ ret.t # "raise"
  /\ envelope.data = EmptyMapping
  /\ BeginsWithError(envelope.text)

\* C2 (as amended): when the GET fails in transport (connection refused,
\* timeout) or is answered 4xx or 5xx, run_model raises nothing and returns
\* an envelope with payload {} and a text that begins with "Error:".
C2_TransportFailureEnvelope ==
  (RanModel /\ (upstream.kind \in {"ConnectionError", "Timeout"}
                  \/ upstream.status_code \in 400..599))
    => ErrorEnvelope

\* run_model answered a 500 with the error envelope
C2_Witness ==
  /\ Done("run_model")
  /\ upstream.status_code = 500
  /\ ErrorEnvelope
  /\ Contains(envelope.text, <<"5","0","0"," ","S","e","r","v","e","r"," ","E","r","r","o","r">>)

\* C2 as stated: the same for every response that is not 2xx.
C2_Original ==
  (RanModel /\ (upstream.kind \in {"ConnectionError", "Timeout"}
                  \/ upstream.status_code \notin 200..299))
    => ErrorEnvelope

\* ------------------------------------------------------------------------
\* C3
\* ------------------------------------------------------------------------
\* the body of an accepted response cannot be decoded, or cannot be filtered
\* (a filter is set and the body is not a list of mappings with string
\* entity_id), or is of no shape the envelope knows
UnexpectedFailure ==
  /\ upstream.kind = "response"
  /\ upstream.status_code \in 200..299
  /\ \/ upstream.text # Compact(upstream.states)
     \/ /\ UsedFilter # <<>>
        /\ \/ upstream.states.t \in {"num", "none"}
           \/ upstream.states.t \in {"dict", "str"} /\ Len(upstream.states.v) > 0
           \/ /\ upstream.states.t = "list"
              /\ \E i \in 1..Len(upstream.states.v) :
                   \/ upstream.states.v[i].t # "dict"
                   \/ ~StringId(upstream.states.v[i])
     \/ UsedFilter = <<>> /\ upstream.states.t \in {"num", "none"}

\* C3: every failure that is not a transport failure ends in an envelope
\* with empty payload and a text "Error: ..."; neither run_model nor the tool
\* function lets an exception out.
C3_UnexpectedFailureEnvelope ==
  /\ (RanModel /\ UnexpectedFailure) => ErrorEnvelope
  /\ (Done("tool") /\ UnexpectedFailure) => ret.t # "raise"

\* ------------------------------------------------------------------------
\* C4
\* ------------------------------------------------------------------------
Structured == listed.t \in {"list", "dict"}

\* the text parses as JSON to the payload
TextParsesToPayload ==
  /\ json_loads(envelope.text).ok
  /\ json_loads(envelope.text).val = envelope.data

\* what _make_data_response makes of a result, case by case
EnvelopeOfResult ==
  /\ listed.t = "list" =>
       envelope.data = PyDict(<< <<<<"r","e","s","u","l","t">>, listed>> >>) /\ TextParsesToPayload
  /\ listed.t = "dict" => envelope.data = listed /\ TextParsesToPayload
  /\ listed.t = "str" => envelope.data = EmptyMapping /\ envelope.text = listed.v
  /\ listed.t \in {"num", "none"} =>
       envelope.data = EmptyMapping /\ envelope.text = <<"E","r","r","o","r",":"," ","U","n","e","x","p","e","c","t","e","d"," ","r","e","s","p","o","n","s","e"," ","f","o","r","m","a","t",".">>

\* C4 (as amended): for a structured result p the text parses as JSON to the
\* payload, which is p for a mapping and {"result": p} for a list; otherwise
\* the payload is {} and the text is the string result or the error. So the
\* payload is empty whenever the text is a plain string, and besides only
\* when p is the empty mapping, whose text is the JSON rendering "{}".
C4_RoundTrip ==
  (RanModel /\ ret.t # "raise") =>
    /\ EnvelopeOfResult
    /\ ~Structured => envelope.data = EmptyMapping
    /\ envelope.data = EmptyMapping => (~Structured \/ listed = EmptyMapping)

\* a list with a quote and a backslash in it went through the round trip
C4_Witness ==
  /\ Done("run_model")
  /\ listed.t = "list"
  /\ \E i \in 1..Len(listed.v) : listed.v[i] = E_nokey
  /\ TextParsesToPayload

\* C4 as stated: the payload is empty exactly when the text is a plain
\* string and no JSON rendering.
C4_Original ==
  (RanModel /\ ret.t # "raise") =>
    /\ EnvelopeOfResult
    /\ envelope.data = EmptyMapping <=> ~Structured

\* ------------------------------------------------------------------------
\* C5
\* ------------------------------------------------------------------------
\* C5: the tool function called with filter_domain = d returns what
\* run_model, configured with filter_domain = d, gets from _list_states for
\* the same token, base URL and upstream behaviour.
C5_ToolIsRunModelListing ==
  Done("tool") =>
    ret = run_model([self EXCEPT !.filter_domain = ToolSchema(arg).filter_domain],
                    upstream).listed

\* a tool call whose filter is not the configured one, on a list it narrows
C5_Witness ==
  /\ Done("tool")
  /\ UsedFilter = <<"l","i","g","h","t">>
  /\ self.filter_domain = PyStr(<<"s","e","n","s","o","r">>)
  /\ upstream.states = PyList(<<E_light, E_sensor>>)
  /\ upstream.status_code = 200
  /\ ret = PyList(<<E_light>>)

\* ------------------------------------------------------------------------
\* C6
\* ------------------------------------------------------------------------
\* C6: a tool call sends its request to the configured base URL with the
\* configured token whatever the agent passes; the schema has filter_domain
\* alone; neither the token nor the base URL is in the text it returns.
C6_SecretsNotExposed ==
  Done("tool") =>
    /\ Len(sent) = 1
    /\ sent[1].url = self.base_url.v \o <<"/","a","p","i","/","s","t","a","t","e","s">>
    /\ sent[1].headers.Authorization = <<"B","e","a","r","e","r"," ">> \o self.ha_token.v
    /\ DOMAIN ToolSchema(arg) = {"filter_domain"}
    /\ ret.t = "str" =>
         ~Contains(ret.v, self.ha_token.v) /\ ~Contains(ret.v, self.base_url.v)

\* ------------------------------------------------------------------------
\* C7
\* ------------------------------------------------------------------------
\* C7: run_model and the tool function each send exactly one GET, whether it
\* succeeds or fails.
C7_OneGetPerInvocation ==
  (Done("run_model") \/ Done("tool")) =>
    /\ Len(sent) = 1
    /\ sent[1].method = "GET"
    /\ sent[1].timeout = TIMEOUT

\* a timed-out GET that was sent once
C7_Witness ==
  /\ Done("tool")
  /\ upstream.kind = "Timeout"
  /\ Len(sent) = 1

C9_PassThrough == Done("build_callbacks") => callbacks = handlers

\* two handlers, out of alphabetical order, returned as given
C9_Witness ==
  /\ Done("build_callbacks")
  /\ handlers = <<"h2", "h1">>
  /\ callbacks = <<"h2", "h1">>

\* ------------------------------------------------------------------------
\* C10
\* ------------------------------------------------------------------------
\* C10: no invocation changes the configured token, base URL or filter; a
\* run_model after a tool call still filters by the configured filter; a tool
\* call with an empty or absent filter_domain returns the upstream list
\* unfiltered whatever filter is configured.
C10_NoSharedState ==
  [][/\ self' = self
     /\ (pc' = "done" /\ op' = "tool" /\ SuccessfulList' /\ FilterText(arg'.filter_domain) = <<>>)
          => ret' = upstream'.states
     /\ (pc' = "done" /\ op' = "run_model" /\ SuccessfulList'
           /\ \A i \in 1..Len(upstream'.states.v) : StringId(upstream'.states.v[i]))
          => listed' = PyList(ReferenceFilter(upstream'.states.v, FilterText(self.filter_domain)))
    ]_vars

\* a run_model that follows a tool call filtered by "light", on a component
\* configured with "sensor": it lists the sensor
C10_Witness ==
  /\ Done("run_model")
  /\ toolFilter = PyStr(<<"l","i","g","h","t">>)
  /\ self.filter_domain = PyStr(<<"s","e","n","s","o","r">>)
  /\ upstream.states = PyList(<<E_light, E_sensor>>)
  /\ upstream.status_code = 200
  /\ listed = PyList(<<E_sensor>>)

====
